---- MODULE Spec2Model ----
(***************************************************************************)
(* A model of the DNS cache resolver of src/dnscache.go: the cache map     *)
(* guarded by one sync.RWMutex, LookupIP / Fetch / Refresh / Stop called   *)
(* by foreground goroutines, and the background goroutine that New starts  *)
(* and that runs Refresh on every tick of a time.Ticker until Stop closes  *)
(* the stop channel.                                                       *)
(***************************************************************************)
EXTENDS Integers, Sequences, FiniteSets, TLC

\* Bounds of the model.
MaxOps == 2      \* operations the foreground goroutines may start in all
MaxTicks == 2    \* ticks the ticker may deliver
LiveTicks == 1   \* the same, under LiveSpec
ConfOps == 1     \* the same two bounds, under ConfSpec
ConfTicks == 1

\* defaultFreq, defaultLookupTimeout (src/dnscache.go:19-20), in seconds
defaultFreq == 3
defaultLookupTimeout == 10

Callers == {"c1", "c2"}          \* foreground goroutines
BG == "bg"                       \* the goroutine started by New
Procs == Callers \cup {BG}
Hosts == {"h1", "h2"}            \* addr arguments
Lists == {<<1>>, <<2, 3>>}       \* []net.IP values the lookup function returns
Nil == <<>>                      \* a nil []net.IP
None == "none"

VARIABLES
  cache,       \* r.cache: a function whose DOMAIN is the set of keys of the map
  readers,     \* goroutines holding r.lock.RLock
  wholder,     \* the goroutine holding r.lock.Lock, or None
  closer,      \* r.closer != nil
  tickerOn,    \* the ticker has not been stopped
  tickC,       \* number of ticks buffered in ticker.C (capacity 1)
  chClosed,    \* the stop channel ch is closed
  panicked,    \* close of a closed channel has panicked
  listener,    \* r.onCacheRefreshedFn != nil
  args,        \* history: the arguments New was called with
  newErr,      \* New returned (nil, err)
  tickerFreq,  \* the period of the ticker New created (0: no ticker)
  lookupTimeout, \* r.defaultLookupTimeout (0: no Resolver)
  pc,          \* where each goroutine stands
  op,          \* the operation each goroutine runs (or ran last)
  host,        \* the addr each goroutine resolves
  ips,         \* the list the lookup function returned to the goroutine
  res,         \* the ([]net.IP, error) the last LookupIP / Fetch returned
  addrs,       \* Refresh: the part of the key snapshot not yet refreshed
  opsLeft,     \* operations the foreground goroutines may still start
  ticks,       \* ticks the ticker may still deliver
  obs,         \* history of the current operation of each goroutine
  know,        \* history: what each goroutine's LookupIP calls have stored
  latest,      \* history: the list of the latest successful resolution per host
  succeeded,   \* history: the hosts a LookupIP call has returned (ips, nil) for
  life         \* history of Stop and of the background goroutine

vars == <<cache, readers, wholder, closer, tickerOn, tickC, chClosed, panicked,
          listener, args, newErr, tickerFreq, lookupTimeout, pc, op, host, ips, res, addrs, opsLeft, ticks,
          obs, know, latest, succeeded, life>>

lockVars == <<readers, wholder>>
stopVars == <<closer, tickerOn, tickC, chClosed, panicked, ticks>>
cfgVars == <<listener, args, newErr, tickerFreq, lookupTimeout>>
histVars == <<know, latest, succeeded>>

\* ([]net.IP, error) values
Ok(l) == [err |-> FALSE, ips |-> l]
Err == [err |-> TRUE, ips |-> Nil]
NoRes == [err |-> FALSE, ips |-> Nil]

\* r.cache[addr] = ips
MapSet(m, k, v) == [x \in (DOMAIN m) \cup {k} |-> IF x = k THEN v ELSE m[x]]
EmptyMap == [x \in {} |-> Nil]

\* The history kept for the operation a goroutine runs (obs):
\*   ncalls   calls of r.lookupIPFn made by the operation
\*   pre      r.cache when the operation began (LookupIP, Fetch: its entry for
\*            the addr of the call; Refresh: all of it)
\*   intf     hosts other goroutines have stored since the operation began
\*            (LookupIP, Fetch: the addr of the call only)
\*   hit      Fetch: what the read of the cache found ("hit", "miss")
\*   snap     Refresh: the key snapshot
\*   got      the lists r.lookupIPFn returned to the operation, per host
\*   failed   the hosts for which r.lookupIPFn returned an error to it
\*   logged   Refresh: the hosts whose failure was logged
\*   ctxDone  LookupIP, Fetch: the deadline of the context passed during the call
Restrict(m, S) == [x \in (DOMAIN m) \cap S |-> m[x]]
FreshObs(S) ==
  [ncalls |-> 0, pre |-> Restrict(cache, S), intf |-> {}, hit |-> None,
   snap |-> {}, got |-> [x \in {} |-> <<>>], failed |-> {},
   logged |-> {}, ctxDone |-> FALSE]
InitObs ==
  [ncalls |-> 0, pre |-> [x \in {} |-> <<>>], intf |-> {}, hit |-> None,
   snap |-> {}, got |-> [x \in {} |-> <<>>], failed |-> {},
   logged |-> {}, ctxDone |-> FALSE]

\* know[p]: the entry a successful LookupIP call of p stored, for as long as
\* no other goroutine and no Refresh of p has stored that host since.
NoKnow == [host |-> None, ips |-> <<>>]

\* Defaulted as it would be without the replacement of non-positive values.
DefaultedNone(v, d) == v

\* if freq <= 0 { freq = defaultFreq } (and the same for lookupTimeout)
Defaulted(v, d) == IF v <= 0 THEN d ELSE v

\* New as it would be without the test of the logger.
NewNoLoggerCheck(freq, timeout, logger) ==
  /\ args = [freq |-> freq, lookupTimeout |-> timeout, logger |-> logger]
  /\ newErr = FALSE
  /\ tickerFreq = Defaulted(freq, defaultFreq)
  /\ lookupTimeout = Defaulted(timeout, defaultLookupTimeout)
  /\ cache = EmptyMap
  /\ readers = {}
  /\ wholder = None
  /\ closer = TRUE
  /\ tickerOn = TRUE
  /\ tickC = 0
  /\ chClosed = FALSE
  /\ panicked = FALSE
  /\ pc = [p \in Procs |-> IF p = BG THEN "select" ELSE "idle"]
  /\ op = [p \in Procs |-> None]
  /\ host = [p \in Procs |-> None]
  /\ ips = [p \in Procs |-> Nil]
  /\ res = [p \in Procs |-> NoRes]
  /\ addrs = [p \in Procs |-> {}]
  /\ obs = [p \in Procs |-> InitObs]
  /\ know = [p \in Callers |-> NoKnow]
  /\ latest = EmptyMap
  /\ succeeded = {}
  /\ life = [closes |-> 0, stopCalled |-> FALSE, stopped |-> FALSE,
             passesAfterStop |-> 0, callsAfterStop |-> FALSE, notified |-> 0]

\* New(freq, lookupTimeout, logger): the state New leaves. Without a logger it
\* returns (nil, err) before the ticker, the stop channel and the goroutine
\* are made. Otherwise the ticker runs with the period freq (time.NewTicker
\* panics when its argument is not positive), the stop channel is open, the
\* closer is set, the cache is empty and the background goroutine stands at
\* its select.
New(freq, timeout, logger) ==
  /\ args = [freq |-> freq, lookupTimeout |-> timeout, logger |-> logger]
  /\ newErr = ~logger
  /\ tickerFreq = IF logger THEN Defaulted(freq, defaultFreq) ELSE 0
  /\ lookupTimeout = IF logger THEN Defaulted(timeout, defaultLookupTimeout) ELSE 0
  /\ cache = EmptyMap
  /\ readers = {}
  /\ wholder = None
  /\ closer = logger
  /\ tickerOn = logger
  /\ tickC = 0
  /\ chClosed = FALSE
  /\ panicked = (logger /\ Defaulted(freq, defaultFreq) <= 0)
  /\ pc = [p \in Procs |->
            IF p # BG THEN "idle" ELSE IF logger THEN "select" ELSE "unstarted"]
  /\ op = [p \in Procs |-> None]
  /\ host = [p \in Procs |-> None]
  /\ ips = [p \in Procs |-> Nil]
  /\ res = [p \in Procs |-> NoRes]
  /\ addrs = [p \in Procs |-> {}]
  /\ obs = [p \in Procs |-> InitObs]
  /\ know = [p \in Callers |-> NoKnow]
  /\ latest = EmptyMap
  /\ succeeded = {}
  /\ life = [closes |-> 0, stopCalled |-> FALSE, stopped |-> FALSE,
             passesAfterStop |-> 0, callsAfterStop |-> FALSE, notified |-> 0]

\* The operations and the ticks that may follow the construction.
Budget(nOps, nTicks) == opsLeft = nOps /\ ticks = nTicks

Init == New(0, 0, TRUE) /\ Budget(MaxOps, MaxTicks) /\ listener \in BOOLEAN

\* The history of Stop and of the background goroutine (life):
\*   closes          times the closer ran
\*   stopCalled      a Stop call has begun
\*   stopped         a Stop call has returned
\*   passesAfterStop refresh passes the background goroutine began after that
\*   callsAfterStop  it called the lookup function after that
\*   notified        times it called r.onCacheRefreshedFn

\* Goroutine p stands at s (nothing runs once the process has panicked).
At(p, s) == ~panicked /\ pc[p] = s

\* A foreground goroutine is free to start an operation (there is a Resolver
\* to call only when New returned one).
CanStart(p) == p \in Callers /\ ~newErr /\ At(p, "idle") /\ opsLeft > 0

\* The lookup function is entered: it either answers by itself ("resolving") or
\* sleeps ("sleeping"). When the deadline of the context passes while it
\* sleeps, a function that honours its context is about to return ctx.Err()
\* ("expired"), and a function that ignores it sleeps on for ever ("hung").
FnStates == {"resolving", "sleeping"}
DoneStates == {"expired", "hung"}

\* The background goroutine issues a lookup after a Stop has returned.
CallsAfterStop(p) ==
  IF p = BG /\ life.stopped THEN [life EXCEPT !.callsAfterStop = TRUE] ELSE life

\* The start of an operation of a foreground goroutine.
Start(p, o, h, s) ==
  /\ CanStart(p)
  /\ pc' = [pc EXCEPT ![p] = s]
  /\ op' = [op EXCEPT ![p] = o]
  /\ host' = [host EXCEPT ![p] = h]
  /\ opsLeft' = opsLeft - 1

\* LookupIP, Fetch: the operation returns r to its caller.
\* Refresh: the loop over addrs goes on with the next addr.
Return(p, r) ==
  IF op[p] = "Refresh"
  THEN /\ pc' = [pc EXCEPT ![p] = "next"]
       /\ UNCHANGED res
  ELSE /\ pc' = [pc EXCEPT ![p] = "idle"]
       /\ res' = [res EXCEPT ![p] = r]

(***************************************************************************)
(* LookupIP (src/dnscache.go:103-113)                                      *)
(***************************************************************************)

\* A foreground goroutine calls LookupIP(ctx, h): r.lookupIPFn is entered.
LookupIPCall(p, h) ==
  /\ \E s \in FnStates : Start(p, "LookupIP", h, s)
  /\ obs' = [obs EXCEPT ![p] = [FreshObs({h}) EXCEPT !.ncalls = 1]]
  /\ UNCHANGED <<cache, lockVars, stopVars, cfgVars, ips, res, addrs, histVars,
                 life>>

\* The deadline of the context of a sleeping lookup function passes.
CtxExpire(p) ==
  /\ At(p, "sleeping")
  /\ \E s \in DoneStates : pc' = [pc EXCEPT ![p] = s]
  /\ obs' = [obs EXCEPT ![p].ctxDone = (op[p] # "Refresh")]
  /\ UNCHANGED <<cache, lockVars, stopVars, cfgVars, op, host, ips, res, addrs,
                 opsLeft, histVars, life>>

\* The states of the lookup function from which it returns an error: any time
\* when it answers by itself, and once the context is done when it sleeps and
\* honours its context.
FailStates == {"resolving", "expired"}

\* LookupIPFail as it would be if a failed lookup evicted the entry.
LookupIPFailEvict(p) ==
  /\ ~panicked
  /\ pc[p] \in FailStates
  /\ Return(p, Err)
  /\ cache' = Restrict(cache, (DOMAIN cache) \ {host[p]})
  /\ obs' = [obs EXCEPT ![p].failed = @ \cup {host[p]},
                         ![p].logged =
                           IF op[p] = "Refresh" THEN @ \cup {host[p]} ELSE @]
  /\ UNCHANGED <<lockVars, stopVars, cfgVars, op, host, ips, addrs,
                 opsLeft, histVars, life>>

\* LookupIPFail as it would be if Refresh gave up at the first failure.
LookupIPFailAbort(p) ==
  /\ ~panicked
  /\ pc[p] \in FailStates
  /\ Return(p, Err)
  /\ addrs' = [addrs EXCEPT ![p] = {}]
  /\ obs' = [obs EXCEPT ![p].failed = @ \cup {host[p]},
                         ![p].logged =
                           IF op[p] = "Refresh" THEN @ \cup {host[p]} ELSE @]
  /\ UNCHANGED <<cache, lockVars, stopVars, cfgVars, op, host, ips,
                 opsLeft, histVars, life>>

\* LookupIPFail as it would be if the error of the lookup function were
\* dropped: LookupIP returns (nil, nil).
LookupIPFailNilErr(p) ==
  /\ ~panicked
  /\ pc[p] \in FailStates
  /\ Return(p, Ok(Nil))
  /\ obs' = [obs EXCEPT ![p].failed = @ \cup {host[p]}]
  /\ UNCHANGED <<cache, lockVars, stopVars, cfgVars, op, host, ips, addrs,
                 opsLeft, histVars, life>>

\* LookupIPFail as it would be if Refresh dropped the error without logging it.
LookupIPFailNoLog(p) ==
  /\ ~panicked
  /\ pc[p] \in FailStates
  /\ Return(p, Err)
  /\ obs' = [obs EXCEPT ![p].failed = @ \cup {host[p]}]
  /\ UNCHANGED <<cache, lockVars, stopVars, cfgVars, op, host, ips, addrs,
                 opsLeft, histVars, life>>

\* LookupIPFail as it would be if a failure were cached as an empty entry.
LookupIPFailNegCache(p) ==
  /\ ~panicked
  /\ pc[p] \in FailStates
  /\ Return(p, Err)
  /\ cache' = MapSet(cache, host[p], Nil)
  /\ obs' = [obs EXCEPT ![p].failed = @ \cup {host[p]},
                         ![p].logged =
                           IF op[p] = "Refresh" THEN @ \cup {host[p]} ELSE @]
  /\ UNCHANGED <<lockVars, stopVars, cfgVars, op, host, ips, addrs,
                 opsLeft, histVars, life>>

\* r.lookupIPFn returns an error: LookupIP returns (nil, err) and leaves the
\* cache alone; Refresh logs the failure and goes on.
LookupIPFail(p) ==
  /\ ~panicked
  /\ pc[p] \in FailStates
  /\ Return(p, Err)
  /\ obs' = [obs EXCEPT ![p].failed = @ \cup {host[p]},
                         ![p].logged =
                           IF op[p] = "Refresh" THEN @ \cup {host[p]} ELSE @]
  /\ UNCHANGED <<cache, lockVars, stopVars, cfgVars, op, host, ips, addrs,
                 opsLeft, histVars, life>>

\* r.lookupIPFn returns (l, nil).
LookupIPResolved(p, l) ==
  /\ At(p, "resolving")
  /\ pc' = [pc EXCEPT ![p] = "wlock"]
  /\ ips' = [ips EXCEPT ![p] = l]
  /\ latest' = MapSet(latest, host[p], l)
  /\ obs' = [obs EXCEPT ![p].got = MapSet(@, host[p], l)]
  /\ UNCHANGED <<cache, lockVars, stopVars, cfgVars, op, host, res, addrs,
                 opsLeft, know, succeeded, life>>

\* r.lock.Lock()
LookupIPLock(p) ==
  /\ At(p, "wlock")
  /\ wholder = None /\ readers = {}
  /\ wholder' = p
  /\ pc' = [pc EXCEPT ![p] = "write"]
  /\ UNCHANGED <<cache, readers, stopVars, cfgVars, op, host, ips, res, addrs,
                 opsLeft, obs, histVars, life>>

\* The history after goroutine p has stored an entry for host h.
ObsStored(p, h) ==
  [q \in Procs |->
     IF q # p /\ (op[q] = "Refresh" \/ host[q] = h)
     THEN [obs[q] EXCEPT !.intf = @ \cup {h}]
     ELSE obs[q]]
KnowStored(p, h, l) ==
  [q \in Callers |->
     IF q = p /\ op[p] = "LookupIP" THEN [host |-> h, ips |-> l]
     ELSE IF q = p /\ op[p] = "Fetch" THEN know[q]
     ELSE IF know[q].host = h THEN NoKnow
     ELSE know[q]]

\* LookupIPStore as it would be if the result were returned without being
\* stored.
LookupIPStoreSkip(p) ==
  /\ At(p, "write")
  /\ wholder' = None
  /\ Return(p, Ok(ips[p]))
  /\ ips' = [ips EXCEPT ![p] = Nil]
  /\ succeeded' = succeeded \cup {host[p]}
  /\ UNCHANGED <<cache, readers, stopVars, cfgVars, op, host, addrs, opsLeft,
                 obs, know, latest, life>>

\* LookupIPStore as it would be if the new addresses were appended to the
\* entry instead of replacing it.
LookupIPStoreAppend(p) ==
  /\ At(p, "write")
  /\ cache' = MapSet(cache, host[p],
                     IF host[p] \in DOMAIN cache
                     THEN cache[host[p]] \o ips[p] ELSE ips[p])
  /\ wholder' = None
  /\ Return(p, Ok(ips[p]))
  /\ ips' = [ips EXCEPT ![p] = Nil]
  /\ obs' = ObsStored(p, host[p])
  /\ know' = KnowStored(p, host[p], ips[p])
  /\ succeeded' = succeeded \cup {host[p]}
  /\ UNCHANGED <<readers, stopVars, cfgVars, op, host, addrs, opsLeft,
                 latest, life>>

\* r.cache[addr] = ips; r.lock.Unlock(); return ips, nil
LookupIPStore(p) ==
  /\ At(p, "write")
  /\ cache' = MapSet(cache, host[p], ips[p])
  /\ wholder' = None
  /\ Return(p, Ok(ips[p]))
  /\ ips' = [ips EXCEPT ![p] = Nil]
  /\ obs' = ObsStored(p, host[p])
  /\ know' = KnowStored(p, host[p], ips[p])
  /\ succeeded' = succeeded \cup {host[p]}
  /\ UNCHANGED <<readers, stopVars, cfgVars, op, host, addrs, opsLeft,
                 latest, life>>

(***************************************************************************)
(* Fetch (src/dnscache.go:117-125)                                         *)
(***************************************************************************)

\* A foreground goroutine calls Fetch(ctx, h).
FetchCall(p, h) ==
  /\ Start(p, "Fetch", h, "rlock")
  /\ obs' = [obs EXCEPT ![p] = FreshObs({h})]
  /\ UNCHANGED <<cache, lockVars, stopVars, cfgVars, ips, res, addrs, histVars,
                 life>>

\* r.lock.RLock()
FetchRLock(p) ==
  /\ At(p, "rlock") /\ op[p] = "Fetch"
  /\ wholder = None
  /\ readers' = readers \cup {p}
  /\ pc' = [pc EXCEPT ![p] = "read"]
  /\ UNCHANGED <<cache, wholder, stopVars, cfgVars, op, host, ips, res, addrs,
                 opsLeft, obs, histVars, life>>

\* FetchRead as it would be if Fetch did not use the entry it found.
FetchReadAlwaysMiss(p) ==
  /\ At(p, "read")
  /\ readers' = readers \ {p}
  /\ \E s \in FnStates : pc' = [pc EXCEPT ![p] = s]
  /\ obs' = [obs EXCEPT ![p].hit = "miss", ![p].ncalls = @ + 1]
  /\ UNCHANGED <<cache, wholder, stopVars, cfgVars, op, host, ips, res, addrs,
                 opsLeft, histVars, life>>

\* FetchRead as it would be if the read lock were released by a deferred
\* RUnlock, when Fetch returns.
FetchReadDeferUnlock(p) ==
  /\ At(p, "read")
  /\ IF host[p] \in DOMAIN cache
     THEN /\ readers' = readers \ {p}
          /\ pc' = [pc EXCEPT ![p] = "idle"]
          /\ res' = [res EXCEPT ![p] = Ok(cache[host[p]])]
          /\ obs' = [obs EXCEPT ![p].hit = "hit"]
     ELSE /\ UNCHANGED readers
          /\ \E s \in FnStates : pc' = [pc EXCEPT ![p] = s]
          /\ obs' = [obs EXCEPT ![p].hit = "miss", ![p].ncalls = @ + 1]
          /\ UNCHANGED res
  /\ UNCHANGED <<cache, wholder, stopVars, cfgVars, op, host, ips, addrs,
                 opsLeft, histVars, life>>

\* ips, ok := r.cache[addr]; r.lock.RUnlock(); a hit returns ips, a miss goes on
\* into r.LookupIP(ctx, addr), which enters r.lookupIPFn.
FetchRead(p) ==
  /\ At(p, "read")
  /\ readers' = readers \ {p}
  /\ IF host[p] \in DOMAIN cache
     THEN /\ pc' = [pc EXCEPT ![p] = "idle"]
          /\ res' = [res EXCEPT ![p] = Ok(cache[host[p]])]
          /\ obs' = [obs EXCEPT ![p].hit = "hit"]
     ELSE /\ \E s \in FnStates : pc' = [pc EXCEPT ![p] = s]
          /\ obs' = [obs EXCEPT ![p].hit = "miss", ![p].ncalls = @ + 1]
          /\ UNCHANGED res
  /\ UNCHANGED <<cache, wholder, stopVars, cfgVars, op, host, ips, addrs,
                 opsLeft, histVars, life>>

(***************************************************************************)
(* Refresh (src/dnscache.go:128-143)                                       *)
(***************************************************************************)

\* A foreground goroutine calls Refresh().
RefreshCall(p) ==
  /\ Start(p, "Refresh", None, "rlock")
  /\ obs' = [obs EXCEPT ![p] = FreshObs(Hosts)]
  /\ UNCHANGED <<cache, lockVars, stopVars, cfgVars, ips, res, addrs, histVars,
                 life>>

\* r.lock.RLock()
RefreshRLock(p) ==
  /\ At(p, "rlock") /\ op[p] = "Refresh"
  /\ wholder = None
  /\ readers' = readers \cup {p}
  /\ pc' = [pc EXCEPT ![p] = "snap"]
  /\ UNCHANGED <<cache, wholder, stopVars, cfgVars, op, host, ips, res, addrs,
                 opsLeft, obs, histVars, life>>

\* addrs := the keys of r.cache; r.lock.RUnlock()
RefreshSnapshot(p) ==
  /\ At(p, "snap")
  /\ readers' = readers \ {p}
  /\ addrs' = [addrs EXCEPT ![p] = DOMAIN cache]
  /\ obs' = [obs EXCEPT ![p].snap = DOMAIN cache]
  /\ pc' = [pc EXCEPT ![p] = "next"]
  /\ UNCHANGED <<cache, wholder, stopVars, cfgVars, op, host, ips, res,
                 opsLeft, histVars, life>>

\* The states in which the lookup function is entered under a context with
\* timeout t: a context whose timeout is not positive is done from the start.
EntryStates(t) == IF t > 0 THEN FnStates ELSE {"resolving"} \cup DoneStates

\* for _, addr := range addrs: the next addr (the map's keys come in any order)
\* is looked up under a context with the timeout r.defaultLookupTimeout.
RefreshNext(p) ==
  /\ At(p, "next")
  /\ \E h \in addrs[p] :
       /\ host' = [host EXCEPT ![p] = h]
       /\ addrs' = [addrs EXCEPT ![p] = @ \ {h}]
  /\ \E s \in EntryStates(lookupTimeout) : pc' = [pc EXCEPT ![p] = s]
  /\ obs' = [obs EXCEPT ![p].ncalls = @ + 1]
  /\ life' = CallsAfterStop(p)
  /\ UNCHANGED <<cache, lockVars, stopVars, cfgVars, op, ips, res, opsLeft,
                 histVars>>

\* RefreshDone as it would be if the loop could end before addrs is used up.
RefreshDoneEarly(p) ==
  /\ At(p, "next")
  /\ pc' = [pc EXCEPT ![p] = IF p = BG THEN "select" ELSE "idle"]
  /\ res' = [res EXCEPT ![p] = NoRes]
  /\ addrs' = [addrs EXCEPT ![p] = {}]
  /\ life' = IF p = BG /\ listener
             THEN [life EXCEPT !.notified = @ + 1] ELSE life
  /\ UNCHANGED <<cache, lockVars, stopVars, cfgVars, op, host, ips,
                 opsLeft, obs, histVars>>

\* RefreshDone as it would be if the background goroutine called the listener
\* without the test for nil.
RefreshDoneNotifyAlways(p) ==
  /\ At(p, "next")
  /\ addrs[p] = {}
  /\ pc' = [pc EXCEPT ![p] = IF p = BG THEN "select" ELSE "idle"]
  /\ res' = [res EXCEPT ![p] = NoRes]
  /\ life' = IF p = BG THEN [life EXCEPT !.notified = @ + 1] ELSE life
  /\ UNCHANGED <<cache, lockVars, stopVars, cfgVars, op, host, ips, addrs,
                 opsLeft, obs, histVars>>

\* The loop is over and Refresh returns. In the background goroutine the
\* listener r.onCacheRefreshedFn is called when it is set, and the select is
\* entered again (src/dnscache.go:88-91).
RefreshDone(p) ==
  /\ At(p, "next")
  /\ addrs[p] = {}
  /\ pc' = [pc EXCEPT ![p] = IF p = BG THEN "select" ELSE "idle"]
  /\ res' = [res EXCEPT ![p] = NoRes]
  /\ life' = IF p = BG /\ listener
             THEN [life EXCEPT !.notified = @ + 1] ELSE life
  /\ UNCHANGED <<cache, lockVars, stopVars, cfgVars, op, host, ips, addrs,
                 opsLeft, obs, histVars>>

(***************************************************************************)
(* Stop (src/dnscache.go:146-153) and the closer (src/dnscache.go:56-59)   *)
(***************************************************************************)

\* A foreground goroutine calls Stop().
StopCall(p) ==
  /\ Start(p, "Stop", None, "slock")
  /\ obs' = [obs EXCEPT ![p] = FreshObs({})]
  /\ life' = [life EXCEPT !.stopCalled = TRUE]
  /\ UNCHANGED <<cache, lockVars, stopVars, cfgVars, ips, res, addrs,
                 histVars>>

\* r.lock.Lock()
StopLock(p) ==
  /\ At(p, "slock")
  /\ wholder = None /\ readers = {}
  /\ wholder' = p
  /\ pc' = [pc EXCEPT ![p] = "sbody"]
  /\ UNCHANGED <<cache, readers, stopVars, cfgVars, op, host, ips, res, addrs,
                 opsLeft, obs, histVars, life>>

\* Closer as it would be without ticker.Stop().
CloserNoTickerStop ==
  /\ UNCHANGED <<tickerOn, tickC>>
  /\ IF chClosed
     THEN panicked' = TRUE /\ UNCHANGED chClosed
     ELSE chClosed' = TRUE /\ UNCHANGED panicked

\* Closer as it would be without close(ch).
CloserNoClose ==
  /\ tickerOn' = FALSE
  /\ \E c \in {0, tickC} : tickC' = c
  /\ UNCHANGED <<chClosed, panicked>>

\* closer: ticker.Stop(); close(ch). Stopping the ticker ends the ticks; a tick
\* already in ticker.C stays there (timers before Go 1.23) or is dropped with
\* the stop (Go 1.23 timers). Closing a closed channel panics.
Closer ==
  /\ tickerOn' = FALSE
  /\ \E c \in {0, tickC} : tickC' = c
  /\ IF chClosed
     THEN panicked' = TRUE /\ UNCHANGED chClosed
     ELSE chClosed' = TRUE /\ UNCHANGED panicked

\* StopBody as it would be without the test of r.closer.
StopBodyNoGuard(p) ==
  /\ At(p, "sbody")
  /\ Closer
  /\ closer' = FALSE
  /\ life' = [life EXCEPT !.closes = @ + 1, !.stopped = TRUE]
  /\ wholder' = None
  /\ pc' = [pc EXCEPT ![p] = "idle"]
  /\ res' = [res EXCEPT ![p] = NoRes]
  /\ UNCHANGED <<cache, readers, cfgVars, op, host, ips, addrs, opsLeft, ticks,
                 obs, histVars>>

\* StopBody as it would be if Stop emptied the cache as well.
StopBodyClear(p) ==
  /\ At(p, "sbody")
  /\ IF closer
     THEN /\ Closer
          /\ closer' = FALSE
          /\ life' = [life EXCEPT !.closes = @ + 1, !.stopped = TRUE]
     ELSE /\ UNCHANGED <<closer, tickerOn, tickC, chClosed, panicked>>
          /\ life' = [life EXCEPT !.stopped = TRUE]
  /\ cache' = EmptyMap
  /\ wholder' = None
  /\ pc' = [pc EXCEPT ![p] = "idle"]
  /\ res' = [res EXCEPT ![p] = NoRes]
  /\ UNCHANGED <<readers, cfgVars, op, host, ips, addrs, opsLeft, ticks,
                 obs, histVars>>

\* if r.closer != nil { r.closer(); r.closer = nil }; the deferred Unlock.
StopBody(p) ==
  /\ At(p, "sbody")
  /\ IF closer
     THEN /\ Closer
          /\ closer' = FALSE
          /\ life' = [life EXCEPT !.closes = @ + 1, !.stopped = TRUE]
     ELSE /\ UNCHANGED <<closer, tickerOn, tickC, chClosed, panicked>>
          /\ life' = [life EXCEPT !.stopped = TRUE]
  /\ wholder' = None
  /\ pc' = [pc EXCEPT ![p] = "idle"]
  /\ res' = [res EXCEPT ![p] = NoRes]
  /\ UNCHANGED <<cache, readers, cfgVars, op, host, ips, addrs, opsLeft, ticks,
                 obs, histVars>>

(***************************************************************************)
(* The ticker and the background goroutine (src/dnscache.go:54, 84-96)     *)
(***************************************************************************)

\* The ticker fires: a tick is put into ticker.C when there is room for it.
Tick ==
  /\ ~panicked
  /\ tickerOn /\ tickC = 0 /\ ticks > 0
  /\ tickC' = 1
  /\ ticks' = ticks - 1
  /\ UNCHANGED <<cache, lockVars, closer, tickerOn, chClosed, panicked, cfgVars,
                 pc, op, host, ips, res, addrs, opsLeft, obs, histVars, life>>

\* BgTick as it would be if the tick were received and no refresh run.
BgTickDrop ==
  /\ At(BG, "select")
  /\ tickC = 1
  /\ tickC' = 0
  /\ UNCHANGED <<cache, lockVars, closer, tickerOn, chClosed, panicked, ticks,
                 cfgVars, pc, op, host, ips, res, addrs, opsLeft, obs,
                 histVars, life>>

\* case <-ticker.C: r.Refresh() is entered.
BgTick ==
  /\ At(BG, "select")
  /\ tickC = 1
  /\ tickC' = 0
  /\ pc' = [pc EXCEPT ![BG] = "rlock"]
  /\ op' = [op EXCEPT ![BG] = "Refresh"]
  /\ obs' = [obs EXCEPT ![BG] = FreshObs(Hosts)]
  /\ life' = IF life.stopped
             THEN [life EXCEPT !.passesAfterStop = @ + 1] ELSE life
  /\ UNCHANGED <<cache, lockVars, closer, tickerOn, chClosed, panicked, ticks,
                 cfgVars, host, ips, res, addrs, opsLeft, histVars>>

\* case <-ch: return
BgExit ==
  /\ At(BG, "select")
  /\ chClosed
  /\ pc' = [pc EXCEPT ![BG] = "exited"]
  /\ UNCHANGED <<cache, lockVars, stopVars, cfgVars, op, host, ips, res, addrs,
                 opsLeft, obs, histVars, life>>

Next ==
  \/ \E p \in Callers, h \in Hosts : LookupIPCall(p, h)
  \/ \E p \in Callers, h \in Hosts : FetchCall(p, h)
  \/ \E p \in Callers : RefreshCall(p)
  \/ \E p \in Callers : StopCall(p)
  \/ \E p \in Procs : CtxExpire(p)
  \/ \E p \in Procs : LookupIPFail(p)
  \/ \E p \in Procs, l \in Lists : LookupIPResolved(p, l)
  \/ \E p \in Procs : LookupIPLock(p)
  \/ \E p \in Procs : LookupIPStore(p)
  \/ \E p \in Callers : FetchRLock(p)
  \/ \E p \in Callers : FetchRead(p)
  \/ \E p \in Procs : RefreshRLock(p)
  \/ \E p \in Procs : RefreshSnapshot(p)
  \/ \E p \in Procs : RefreshNext(p)
  \/ \E p \in Procs : RefreshDone(p)
  \/ \E p \in Callers : StopLock(p)
  \/ \E p \in Callers : StopBody(p)
  \/ Tick
  \/ BgTick
  \/ BgExit

Spec == Init /\ [][Next]_vars

\* A goroutine that has begun an operation goes on: the scheduler runs it, the
\* lookup function answers when it answers by itself, the deadline of a
\* context passes, and a lock that is free is obtained.
Proceed(p) ==
  \/ CtxExpire(p)
  \/ LookupIPFail(p)
  \/ \E l \in Lists : LookupIPResolved(p, l)
  \/ LookupIPLock(p)
  \/ LookupIPStore(p)
  \/ FetchRLock(p)
  \/ FetchRead(p)
  \/ RefreshRLock(p)
  \/ RefreshSnapshot(p)
  \/ RefreshNext(p)
  \/ RefreshDone(p)
  \/ StopLock(p)
  \/ StopBody(p)

\* The select of the background goroutine takes a case that is ready.
BgSelect == BgTick \/ BgExit

Fairness == WF_vars(BgSelect) /\ \A p \in Procs : WF_vars(Proceed(p))

LiveInit == New(0, 0, TRUE) /\ Budget(MaxOps, LiveTicks) /\ listener = FALSE

LiveSpec == LiveInit /\ [][Next]_vars /\ Fairness

\* The arguments New is called with under ConfSpec: non-positive and positive
\* durations (in seconds), with and without a logger.
ConfArgs ==
  { [freq |-> d[1], lookupTimeout |-> d[2], logger |-> lg] :
      d \in {<<-1, -1>>, <<0, 5>>, <<2, 0>>, <<2, 5>>}, lg \in BOOLEAN }

ConfInit ==
  /\ \E a \in ConfArgs : New(a.freq, a.lookupTimeout, a.logger)
  /\ Budget(ConfOps, ConfTicks)
  /\ listener = FALSE

ConfSpec == ConfInit /\ [][Next]_vars

(***************************************************************************)
(* Properties                                                              *)
(***************************************************************************)

\* The entry of the cache for host h, as a map with at most that one key.
Entry(m, h) == Restrict(m, {h})

\* Goroutine p has returned from a call of operation o.
Returned(p, o) == pc[p] = "idle" /\ op[p] = o

\* Goroutine p has completed a refresh pass (a Refresh call of a foreground
\* goroutine, or a pass of the background goroutine).
PassDone(p) == op[p] = "Refresh" /\ pc[p] \in {"idle", "select", "exited"}

\* C1: a LookupIP(ctx, h) call whose lookup function fails returns an error
\* and does not modify the store: when no other goroutine has stored h since
\* the call began, the entry of h is what it was when the call began (L1 when
\* h was cached with L1).
C1_StaleOnFailure ==
  \A p \in Callers :
    (Returned(p, "LookupIP") /\ host[p] \in obs[p].failed) =>
      /\ res[p] = Err
      /\ (host[p] \notin obs[p].intf => Entry(cache, host[p]) = obs[p].pre)

C1_Witness ==
  \E p \in Callers :
    /\ Returned(p, "LookupIP") /\ host[p] \in obs[p].failed
    /\ host[p] \in DOMAIN obs[p].pre
    /\ host[p] \notin obs[p].intf

\* C2: after a LookupIP(ctx, h) of a goroutine has succeeded with list L and
\* stored it, a Fetch(ctx, h) of that goroutine with no store of h in between
\* returns (L, nil) and does not call the lookup function.
C2_CachePopulation ==
  \A p \in Callers :
    (Returned(p, "Fetch") /\ know[p].host = host[p]) =>
      /\ res[p] = Ok(know[p].ips)
      /\ obs[p].ncalls = 0

C2_Witness ==
  \E p \in Callers : Returned(p, "Fetch") /\ know[p].host = host[p]

\* C3: a Fetch(ctx, h) that finds no entry for h calls the lookup function
\* exactly once; when that call succeeds with list L, Fetch returns (L, nil)
\* and L is stored under h (it is the entry of h unless another goroutine has
\* stored h since); when it fails, Fetch returns the error.
C3_FetchMissDelegates ==
  \A p \in Callers :
    (Returned(p, "Fetch") /\ obs[p].hit = "miss") =>
      /\ obs[p].ncalls = 1
      /\ IF host[p] \in obs[p].failed
         THEN res[p] = Err
         ELSE /\ host[p] \in DOMAIN obs[p].got
              /\ res[p] = Ok(obs[p].got[host[p]])
              /\ host[p] \in DOMAIN cache
              /\ host[p] \notin obs[p].intf =>
                   cache[host[p]] = obs[p].got[host[p]]

C3_Witness ==
  \E p \in Callers :
    /\ Returned(p, "Fetch") /\ obs[p].hit = "miss"
    /\ ~res[p].err
    /\ host[p] \notin obs[p].intf

\* C4: when a refresh pass has completed in which every call of the lookup
\* function returned list L, and no other goroutine has stored an entry since
\* the pass began, every cached entry equals L.
C4_RefreshReplaces ==
  \A p \in Procs : \A l \in Lists :
    ( /\ PassDone(p)
      /\ obs[p].failed = {} /\ obs[p].intf = {}
      /\ \A h \in DOMAIN obs[p].got : obs[p].got[h] = l ) =>
      \A h \in DOMAIN cache : cache[h] = l

C4_Witness ==
  \E p \in Procs : \E l \in Lists :
    /\ PassDone(p)
    /\ obs[p].failed = {} /\ obs[p].intf = {}
    /\ Cardinality(obs[p].snap) = 2
    /\ \A h \in obs[p].snap : obs[p].pre[h] # l
    /\ \A h \in DOMAIN obs[p].got : obs[p].got[h] = l

\* C5: a completed refresh pass has looked up every hostname of its snapshot,
\* whether or not one of them failed; a hostname whose lookup failed keeps the
\* entry it had, and every other hostname of the snapshot has the list its
\* lookup returned (for the hostnames no other goroutine has stored since the
\* pass began).
C5_PartialFailureIsolation ==
  \A p \in Procs :
    PassDone(p) =>
      /\ obs[p].snap = obs[p].failed \cup DOMAIN obs[p].got
      /\ \A h \in obs[p].snap \ obs[p].intf :
           IF h \in obs[p].failed
           THEN Entry(cache, h) = Entry(obs[p].pre, h)
           ELSE h \in DOMAIN cache /\ cache[h] = obs[p].got[h]

C5_Witness ==
  \E p \in Procs : \E h \in Hosts :
    /\ PassDone(p)
    /\ Cardinality(obs[p].snap) = 2
    /\ obs[p].failed = {h}
    /\ obs[p].intf = {}
    /\ \A g \in obs[p].snap \ {h} : obs[p].pre[g] # obs[p].got[g]


\* C6 as claimed: once a Stop call has returned, the background goroutine
\* begins no refresh pass and calls the lookup function no more.
C6_NoRefreshAfterStop ==
  life.stopped => (life.passesAfterStop = 0 /\ ~life.callsAfterStop)

\* C6 as amended: once a Stop call has returned, the background goroutine
\* begins at most one more refresh pass (for a tick that was in the ticker's
\* channel already), and a Fetch of a hostname that is cached returns its
\* entry without a call of the lookup function.
C6_AtMostOnePassAfterStop ==
  /\ life.passesAfterStop <= 1
  /\ \A p \in Callers :
       ( /\ life.stopped /\ Returned(p, "Fetch")
         /\ host[p] \in DOMAIN obs[p].pre
         /\ host[p] \notin obs[p].intf ) =>
         /\ res[p] = Ok(obs[p].pre[host[p]])
         /\ obs[p].ncalls = 0

C6_Witness ==
  /\ life.stopped /\ life.passesAfterStop = 1 /\ life.callsAfterStop
  /\ pc[BG] = "exited"
  /\ \E p \in Callers : Returned(p, "Stop")

\* C7: however many Stop calls are made, one after another or concurrently,
\* the closer runs at most once, the stop channel is closed exactly when it
\* has run, and no call panics; once a Stop call has returned the ticker is
\* stopped, the channel closed and r.closer nil; and a Stop call that waits
\* for r.lock waits only for goroutines that are inside an in-memory section
\* (none of them waits for the lookup function or for another lock).
C7_IdempotentStop ==
  /\ life.closes <= 1
  /\ ~panicked
  /\ chClosed <=> (life.closes = 1)
  /\ closer <=> (life.closes = 0)
  /\ life.stopped => (chClosed /\ ~tickerOn /\ ~closer)
  /\ \A p \in Callers :
       pc[p] = "slock" =>
         /\ wholder # None => pc[wholder] \in {"write", "sbody"}
         /\ \A q \in readers : pc[q] \in {"read", "snap"}

C7_Witness ==
  /\ \A p \in Callers : Returned(p, "Stop")
  /\ life.closes = 1

\* No goroutine stands between the return of a successful lookup and its store.
NoStorePending == \A p \in Procs : pc[p] \notin {"wlock", "write"}

\* C10: whenever no store is pending, the entry of every hostname that has
\* been resolved successfully is the list of its most recent successful
\* resolution.
C10_MostRecentWins ==
  NoStorePending =>
    \A h \in DOMAIN latest : h \in DOMAIN cache /\ cache[h] = latest[h]


\* C8: once Stop has been called the background goroutine ends, wherever it
\* stands at that moment (at its select, or in a refresh pass, which it
\* finishes first), unless a lookup function that ignores its context keeps it
\* in a call for ever.
C8_StopLiveness == life.stopCalled ~> (pc[BG] \in {"exited", "hung"})

C8_Witness ==
  /\ life.stopCalled /\ life.callsAfterStop
  /\ pc[BG] = "exited"

\* C9 as claimed: whatever the lookup function does, a LookupIP call whose
\* context deadline has passed returns an error.
C9_TimeoutAlwaysReturns ==
  \A p \in Callers :
    (op[p] = "LookupIP" /\ pc[p] \in DoneStates) ~>
      (Returned(p, "LookupIP") /\ res[p] = Err)

\* C9 as amended: with a lookup function that returns the error of its
\* context once the context is done, a LookupIP call whose context deadline
\* has passed returns an error (and LookupIP returns only when the lookup
\* function does).
C9_TimeoutPropagation ==
  \A p \in Callers :
    (op[p] = "LookupIP" /\ pc[p] = "expired") ~>
      (Returned(p, "LookupIP") /\ res[p] = Err /\ obs[p].ctxDone)

C9_Witness ==
  \E p \in Callers :
    /\ Returned(p, "LookupIP") /\ res[p] = Err /\ obs[p].ctxDone
    /\ host[p] \in DOMAIN cache

\* C11 as claimed: of the Fetch calls of one hostname, concurrent ones
\* included, at most one calls the lookup function (leaving aside the calls
\* whose lookup failed, after which nothing is cached).
C11_ResolveOnce ==
  \A p, q \in Callers :
    ( /\ p # q
      /\ op[p] = "Fetch" /\ op[q] = "Fetch"
      /\ host[p] = host[q]
      /\ host[p] \notin obs[p].failed /\ host[q] \notin obs[q].failed ) =>
      ~(obs[p].ncalls >= 1 /\ obs[q].ncalls >= 1)

\* C11 as amended: a Fetch(ctx, h) that begins when h is cached calls the
\* lookup function not at all and returns a list with a nil error; only a
\* Fetch that began before the first list of h was stored calls it, and it
\* calls it once (concurrent Fetch calls of a new hostname each resolve it).
C11_ServedFromMemory ==
  \A p \in Callers :
    op[p] = "Fetch" =>
      /\ obs[p].ncalls <= 1
      /\ host[p] \in DOMAIN obs[p].pre =>
           /\ obs[p].ncalls = 0
           /\ obs[p].hit # "miss"
           /\ Returned(p, "Fetch") => (~res[p].err /\ res[p].ips \in Lists)

\* The first Fetch of h has resolved and stored it, and a later Fetch of h by
\* another goroutine has been served from the cache.
C11_Witness ==
  \E p, q \in Callers :
    /\ p # q /\ host[p] = host[q]
    /\ Returned(q, "Fetch") /\ obs[q].hit = "miss" /\ ~res[q].err
    /\ Returned(p, "Fetch") /\ host[p] \in DOMAIN obs[p].pre
    /\ obs[p].ncalls = 0

\* A step in which goroutine p completes a refresh pass.
PassCompletes(p) ==
  pc[p] = "next" /\ op[p] = "Refresh" /\ pc'[p] \in {"idle", "select"}

\* C12 as claimed: with a listener set, every step that completes a refresh
\* pass (of the background goroutine or of a Refresh call) calls the listener
\* once, and no other step calls it; with no listener set nothing is called.
C12_ListenerOncePerPass ==
  [][ life'.notified =
        IF listener /\ (\E p \in Procs : PassCompletes(p))
        THEN life.notified + 1 ELSE life.notified ]_vars

\* C12 as amended: with a listener set, every step that completes a refresh
\* pass of the background goroutine calls the listener once, after every
\* hostname of the snapshot has been looked up; no other step calls it (a
\* Refresh call of a foreground goroutine does not); with no listener set
\* nothing is called.
C12_ListenerOncePerBackgroundPass ==
  [][ /\ life'.notified =
          IF listener /\ PassCompletes(BG)
          THEN life.notified + 1 ELSE life.notified
      /\ PassCompletes(BG) =>
          /\ addrs[BG] = {}
          /\ obs[BG].snap = obs[BG].failed \cup DOMAIN obs[BG].got ]_vars

\* The background goroutine has completed two passes and called the listener
\* twice, and a Refresh call over a cached hostname has returned.
C12_Witness ==
  /\ listener /\ life.notified = 2
  /\ pc[BG] \in {"select", "exited"}
  /\ \E p \in Callers : Returned(p, "Refresh") /\ obs[p].snap # {}

\* C13: the hostnames of the store are exactly those for which a LookupIP
\* call has returned successfully: every LookupIP that has succeeded (called
\* directly, by a Fetch miss or by a refresh pass) has left an entry, and a
\* call that failed for a hostname without an entry has created none.
C13_PresentIffSucceeded ==
  /\ DOMAIN cache = succeeded
  /\ \A p \in Callers :
       (pc[p] = "idle" /\ op[p] \in {"LookupIP", "Fetch"}) =>
         IF res[p].err
         THEN (host[p] \notin DOMAIN obs[p].pre /\ host[p] \notin obs[p].intf)
                => host[p] \notin DOMAIN cache
         ELSE host[p] \in DOMAIN cache
  /\ \A p \in Procs : PassDone(p) => DOMAIN obs[p].got \subseteq DOMAIN cache

\* A LookupIP of a hostname has failed and left no entry, while another
\* hostname, resolved successfully, has one.
C13_Witness ==
  \E p \in Callers :
    /\ Returned(p, "LookupIP") /\ res[p].err
    /\ host[p] \notin DOMAIN cache
    /\ succeeded # {}

C16_Defaulting ==
  args.logger =>
    /\ ~newErr /\ ~panicked
    /\ args.freq > 0 => tickerFreq = args.freq
    /\ args.freq <= 0 => tickerFreq = 3
    /\ args.lookupTimeout > 0 => lookupTimeout = args.lookupTimeout
    /\ args.lookupTimeout <= 0 => lookupTimeout = 10
    /\ \A p \in Procs :
         (op[p] = "Refresh" /\ pc[p] \in FnStates \cup DoneStates) =>
           lookupTimeout > 0

\* New was called with non-positive durations, and the background goroutine
\* has completed a pass in which it looked up a hostname.
C16_Witness ==
  /\ args.logger /\ args.freq <= 0 /\ args.lookupTimeout <= 0
  /\ tickerFreq = 3 /\ lookupTimeout = 10
  /\ pc[BG] = "select" /\ op[BG] = "Refresh" /\ obs[BG].snap # {}

\* C17: every step that changes the cache map is the store of a LookupIP
\* whose lookup function has succeeded: the goroutine holds the write lock,
\* and the map changes by the entry of its addr alone, which becomes the list
\* the function returned. Every other step (a Fetch hit, a failed LookupIP,
\* the key snapshot of Refresh, Stop) leaves the map as it is.
C17_OnlyLookupIPWrites ==
  [][ cache' # cache =>
        \E p \in Procs :
          /\ pc[p] = "write" /\ pc'[p] # "write"
          /\ wholder = p
          /\ host[p] \in DOMAIN obs[p].got
          /\ cache' = MapSet(cache, host[p], obs[p].got[host[p]]) ]_vars

\* A Fetch miss has stored an entry, the background goroutine has refreshed
\* it in a pass, and a Stop call has returned.
C17_Witness ==
  /\ \E p \in Callers :
       Returned(p, "Fetch") /\ obs[p].hit = "miss" /\ ~res[p].err
  /\ \E p \in Callers : Returned(p, "Stop")
  /\ PassDone(BG) /\ DOMAIN obs[BG].got # {}

\* C18: a goroutine whose call of the lookup function is in progress holds
\* neither the read lock nor the write lock; the write lock is held only by a
\* goroutine at the map write of LookupIP or in the body of Stop, and the
\* read lock only by one at the map read of Fetch or at the key snapshot of
\* Refresh.
C18_NoLockAcrossResolution ==
  /\ \A p \in Procs :
       pc[p] \in FnStates \cup DoneStates => (p \notin readers /\ wholder # p)
  /\ wholder # None => pc[wholder] \in {"write", "sbody"}
  /\ \A p \in readers : pc[p] \in {"read", "snap"}

\* While the background goroutine hangs in the lookup function, a Fetch of a
\* cached hostname holds the read lock and is about to return its entry.
C18_Witness ==
  /\ pc[BG] = "hung"
  /\ \E p \in Callers :
       /\ pc[p] = "read" /\ p \in readers
       /\ host[p] \in DOMAIN cache

\* C19: in every step, an entry of the cache that is new or has a new value
\* holds, whole, the list the lookup function returned for that very hostname
\* to the goroutine that stores it; so every entry is one of the lists the
\* function returns, never a mixture of two, and so is every list a Fetch
\* returns.
C19_AtomicReplacement ==
  [][ /\ \A h \in DOMAIN cache' :
           Entry(cache', h) # Entry(cache, h) =>
             \E p \in Procs :
               /\ pc[p] = "write" /\ host[p] = h
               /\ h \in DOMAIN obs[p].got
               /\ ips[p] = obs[p].got[h]
               /\ cache'[h] = ips[p]
      /\ \A h \in DOMAIN cache' : cache'[h] \in Lists
      /\ \A p \in Callers :
           (pc'[p] = "idle" /\ op'[p] = "Fetch" /\ ~res'[p].err) =>
             res'[p].ips \in Lists ]_vars

\* The entry of a hostname has been replaced by a different list in a refresh
\* pass, and a Fetch has then returned the new list.
C19_Witness ==
  \E p \in Callers :
    /\ Returned(p, "Fetch") /\ obs[p].hit = "hit"
    /\ host[p] \in DOMAIN obs[BG].got
    /\ host[p] \in DOMAIN obs[BG].pre
    /\ obs[BG].pre[host[p]] # obs[BG].got[host[p]]
    /\ res[p] = Ok(obs[BG].got[host[p]])

\* C20: in a refresh pass the hostnames whose failure has been logged are
\* exactly those of the snapshot whose lookup has failed, and none of them is
\* one whose lookup has succeeded; a completed pass has made one call of the
\* lookup function per snapshot hostname, so none and no log over an empty
\* cache; a Refresh call returns nothing to its caller, whatever failed; and a
\* failure of a LookupIP or Fetch call is not logged.
C20_RefreshErrorReporting ==
  \A p \in Procs :
    IF op[p] = "Refresh"
    THEN /\ obs[p].logged = obs[p].failed
         /\ obs[p].logged \subseteq obs[p].snap
         /\ obs[p].logged \cap DOMAIN obs[p].got = {}
         /\ PassDone(p) =>
              /\ obs[p].ncalls = Cardinality(obs[p].snap)
              /\ obs[p].snap = {} => obs[p].logged = {}
              /\ p \in Callers => res[p] = NoRes
    ELSE obs[p].logged = {}

\* A pass over two cached hostnames has completed with one lookup failed and
\* logged and the other succeeded.
C20_Witness ==
  \E p \in Procs :
    /\ PassDone(p)
    /\ Cardinality(obs[p].snap) = 2
    /\ Cardinality(obs[p].logged) = 1
    /\ Cardinality(DOMAIN obs[p].got) = 1

\* C21: no step removes a hostname from the cache; the store of a refresh
\* pass adds none (it replaces the entry of a hostname that is cached); and a
\* Fetch(ctx, h) that began when h was cached finds its entry at its read and
\* returns a list with a nil error, without a call of the lookup function,
\* whatever lookups of h have failed in between.
C21_KeysNeverShrink ==
  [][ /\ DOMAIN cache \subseteq DOMAIN cache'
      /\ \A p \in Procs :
           (op[p] = "Refresh" /\ pc[p] = "write" /\ pc'[p] # "write") =>
             DOMAIN cache' = DOMAIN cache
      /\ \A p \in Callers :
           ( /\ op[p] = "Fetch" /\ pc[p] = "read" /\ pc'[p] # "read"
             /\ host[p] \in DOMAIN obs[p].pre ) =>
             /\ pc'[p] = "idle"
             /\ res'[p] = Ok(cache[host[p]])
             /\ obs'[p].ncalls = 0 ]_vars

\* A Fetch of a cached hostname has returned its entry, and the background
\* goroutine has completed its second pass, in which the lookup of that
\* hostname failed.
C21_Witness ==
  \E p \in Callers :
    /\ Returned(p, "Fetch") /\ obs[p].hit = "hit" /\ ~res[p].err
    /\ host[p] \in DOMAIN obs[p].pre
    /\ PassDone(BG) /\ host[p] \in obs[BG].failed
    /\ ticks = 0 /\ tickC = 0 /\ tickerOn
    /\ host[p] \in DOMAIN cache

====
